---- MODULE Spec2Model ----
(***************************************************************************)
(* Model of the abinit_tools toolkit:                                      *)
(*   - reader(files, param)        src/scripts/reader.py                   *)
(*   - fit_curve / main            src/scripts/fit.py                      *)
(*   - birch_murnaghan             src/abinit_tools/fits.py                *)
(*   - clean_format / main         src/scripts/cif2abi.py                  *)
(*                                                                         *)
(* Every run executes one of the programs (variable prog); the variables   *)
(* of the other programs stay at their idle values.                        *)
(*                                                                         *)
(* Numbers.  Python floats are modelled by exact rationals                 *)
(* [num |-> n, den |-> d] in lowest terms with d > 0.  The IEEE results of *)
(* a division by zero are [num |-> 0, den |-> 0] (nan) and                 *)
(* [num |-> +-1, den |-> 0] (+-inf).                                       *)
(* Lengths.  ase.units.Bohr (0.52917721067 Angstrom) is kept symbolic: a   *)
(* length is [c |-> k, e |-> n], standing for k * Bohr^n.  A lattice read  *)
(* from a file (Angstrom) has entries k * Bohr^1; dividing by Bohr lowers  *)
(* the exponent, and only values with exponent 0 are plain numbers.        *)
(***************************************************************************)
EXTENDS Integers, Sequences, FiniteSets, TLC

VARIABLES
    prog,        \* which program runs: "reader", "fit", "cif2abi", "eos"
    pc,          \* position in that program
    outcome,     \* "running", "returned", or the name of the exception raised
    \* reader.py
    files,       \* the records handed to reader, in order
    param,       \* the parameter kind
    idx,         \* number of records the for loop has taken so far
    energy,      \* reader's energy list
    params,      \* reader's params list
    opened,      \* indices of the records currently open (with abiopen)
    openLog,     \* indices of the records opened so far, in the order opened
    \* fit.py
    entry,       \* "main" (selector string) or "fit_curve" (function passed)
    read_files_defined,  \* does the abinit_tools.reader found on the import
                 \* path define read_files?
    fit_param,   \* args.param
    selector,    \* args.fit
    fit,         \* the fit function handed to fit_curve
    x_data,
    y_data,
    p0,          \* the initial guess handed to curve_fit
    solverCalls, \* number of curve_fit calls
    \* cif2abi.py
    cell,        \* the lattice of struct, as the CIF declares it (Angstrom)
    latt,        \* primitive.lattice.matrix (Angstrom)
    sites,       \* the primitive structure's sites
    full,        \* args.full
    acell,
    rprim,
    unique_z,
    typat,
    block,       \* the text written to the .abi file
    \* fits.py
    bmArgs,      \* arguments of birch_murnaghan
    bmResult     \* its value

vars == <<prog, pc, outcome, files, param, idx, energy, params, opened, openLog,
          entry, read_files_defined, fit_param, selector, fit,
          x_data, y_data, p0, solverCalls,
          cell, latt, sites, full, acell, rprim, unique_z, typat, block,
          bmArgs, bmResult>>

readerVars == <<files, param, idx, energy, params, opened, openLog>>
fitVars    == <<entry, read_files_defined, fit_param, selector, fit,
                x_data, y_data, p0, solverCalls>>
cifVars    == <<cell, latt, sites, full, acell, rprim, unique_z, typat,
                block>>
eosVars    == <<bmArgs, bmResult>>

----------------------------------------------------------------------------
(* Bounds of the model *)

MaxFiles   == 2   \* records handed to reader
MaxSamples == 4   \* samples handed to fit_curve
MaxSites   == 3   \* sites of a primitive structure
MaxBase    == 2   \* V and V_0 are multiples 1..MaxBase of a sixth power
MaxB       == 2   \* E_0 in -MaxB..0, B_0 in 1..MaxB, B_1 in 0..MaxB

----------------------------------------------------------------------------
(* Exact arithmetic standing for Python / numpy float arithmetic *)

Abs(n) == IF n < 0 THEN -n ELSE n

Sign(n) == IF n < 0 THEN -1 ELSE IF n > 0 THEN 1 ELSE 0

RECURSIVE GCD(_, _)
GCD(a, b) == IF b = 0 THEN a ELSE GCD(b, a % b)

\* the rational n/d (d # 0) in lowest terms with a positive denominator
Rat(n, d) ==
    LET g == GCD(Abs(n), Abs(d))
        s == IF d < 0 THEN -1 ELSE 1
    IN  [num |-> (s * n) \div g, den |-> (s * d) \div g]

FromInt(n) == [num |-> n, den |-> 1]

NaN == [num |-> 0, den |-> 0]

IsFinite(x) == x.den # 0

RAdd(x, y) == Rat(x.num * y.den + y.num * x.den, x.den * y.den)
RSub(x, y) == Rat(x.num * y.den - y.num * x.den, x.den * y.den)
RMul(x, y) == Rat(x.num * y.num, x.den * y.den)

IsNaN(x) == x.den = 0 /\ x.num = 0

\* float division as numpy performs it (IEEE 754): x/0 is nan (x = 0) or
\* +-inf, with a RuntimeWarning and no exception; a nan operand and inf/inf
\* give nan; inf divided by a finite number is inf with the sign of the
\* quotient (the zero of the model is +0.0); a finite number divided by inf is 0
FDiv(x, y) ==
    IF IsNaN(x) \/ IsNaN(y) THEN NaN
    ELSE IF ~IsFinite(x)
    THEN IF ~IsFinite(y) THEN NaN
         ELSE [num |-> x.num * (IF y.num < 0 THEN -1 ELSE 1), den |-> 0]
    ELSE IF ~IsFinite(y) THEN FromInt(0)
    ELSE IF y.num = 0 THEN [num |-> Sign(x.num), den |-> 0]
    ELSE Rat(x.num * y.den, x.den * y.num)

RECURSIVE IPow(_, _)
IPow(b, k) == IF k = 0 THEN 1 ELSE b * IPow(b, k - 1)

RPowInt(x, k) == [num |-> IPow(x.num, k), den |-> IPow(x.den, k)]

\* the k-th root of a natural number that is a perfect k-th power
Root(n, k) == CHOOSE r \in 0..n : IPow(r, k) = n

\* x ** (en/ed) for a positive rational x: Python first evaluates the exponent
\* en/ed (2/4 is 0.5), so the fraction is reduced before the root is taken; the
\* numerator and denominator of x are perfect powers of the reduced degree
RPow(x, en, ed) ==
    LET g == GCD(en, ed)
        n == en \div g
        d == ed \div g
    IN  [num |-> IPow(Root(x.num, d), n), den |-> IPow(Root(x.den, d), n)]

----------------------------------------------------------------------------
(* Lengths and lattices *)

\* k * Bohr Angstrom
Ang(k) == [c |-> k, e |-> 1]

Row(a, b, c) == <<Ang(a), Ang(b), Ang(c)>>

\* x / Bohr for one length
DivBohr(x) == [c |-> x.c, e |-> x.e - 1]

\* the float held by a length that is a plain number (exponent 0)
Plain(x) == CHOOSE r \in {FromInt(x.c)} : x.e = 0

\* lattice / Bohr, as floats: a 3x3 matrix of rationals
ToBohr(lattice) ==
    [i \in 1..3 |-> [j \in 1..3 |-> Plain(DivBohr(lattice[i][j]))]]

\* np.linalg.norm of one row; the rows of the model have integer entries and
\* an integer norm
norm(vec) ==
    FromInt(Root(vec[1].num * vec[1].num + vec[2].num * vec[2].num
                 + vec[3].num * vec[3].num, 2))

\* np.linalg.norm(m, axis=1)
norm_axis1(m) == [i \in 1..3 |-> norm(m[i])]

\* np.linalg.det of a 3x3 matrix
det(m) ==
    RAdd(RSub(RMul(m[1][1], RSub(RMul(m[2][2], m[3][3]), RMul(m[2][3], m[3][2]))),
              RMul(m[1][2], RSub(RMul(m[2][1], m[3][3]), RMul(m[2][3], m[3][1])))),
         RMul(m[1][3], RSub(RMul(m[2][1], m[3][2]), RMul(m[2][2], m[3][1]))))

\* the lattices of the model (rows in units of Bohr Angstrom, integer norms)
LatCubic == <<Row(2, 0, 0), Row(0, 2, 0), Row(0, 0, 2)>>
LatSkew  == <<Row(3, 4, 0), Row(0, 1, 0), Row(0, 0, 1)>>
LatTilt  == <<Row(2, 2, 1), Row(-1, 2, 2), Row(0, 0, 3)>>
LatMixed == <<Row(1, 2, 2), Row(0, 2, 0), Row(4, 0, 3)>>
\* two cells of zero volume, as a CIF can declare them: a zero-length vector,
\* and two parallel vectors
LatZero  == <<Row(2, 0, 0), Row(0, 0, 0), Row(0, 0, 2)>>
LatFlat  == <<Row(1, 0, 0), Row(2, 0, 0), Row(0, 0, 1)>>

----------------------------------------------------------------------------
(* reader.py: reader(files, param) *)

\* a GSR record as abiopen exposes it: total energy (Ha), lattice (Angstrom),
\* ecut (a quantity with its unit) and nkpt
GSR(e, lattice, ecut, nkpt) ==
    [energy |-> e, lattice |-> lattice,
     ecut |-> [value |-> ecut, unit |-> "Ha"], nkpt |-> nkpt]

Records ==
    { GSR(-3, LatCubic, 10, 4),
      GSR(-5, LatSkew, 20, 8),
      GSR(-4, LatTilt, 30, 2) }

ParamKinds == {"volume", "ecut", "nkpt", "acell", "rprim", "foo"}

\* the lists of at most n elements of S
SeqsUpTo(S, n) == UNION { [1..k -> S] : k \in 0..n }

\* gsr.ecut.to(unit): the records of the model report ecut in Hartree
to(q, unit) == CHOOSE v \in {FromInt(q.value)} : q.unit = unit

\* m / v for a (3,3) array m and a (3,) array v: numpy broadcasting aligns v
\* with the last axis of m, so column j is divided by v[j]
divide(m, v) == [i \in 1..3 |-> [j \in 1..3 |-> FDiv(m[i][j], v[j])]]

\* list.insert(0, x) in place of list.append(x)
append_front(list, x) == <<x>> \o list

\* list.append
append(list, x) == Append(list, x)

\* the branches of the if/elif chain that append a value
Recognized(p) ==
    p = "volume" \/ p = "ecut" \/ p = "nkpt" \/ p = "acell" \/ p = "rprim"

\* the value the chain appends to params for one open record
reader_value(gsr, p) ==
    LET lattice_bohr == ToBohr(gsr.lattice)
    IN  IF p = "volume" THEN det(lattice_bohr)
        ELSE IF p = "ecut" THEN to(gsr.ecut, "Ha")
        ELSE IF p = "nkpt" THEN FromInt(gsr.nkpt)
        ELSE IF p = "acell" THEN norm_axis1(lattice_bohr)
        ELSE divide(lattice_bohr, norm_axis1(lattice_bohr))

InitReader ==
    /\ prog = "reader"
    /\ pc = "loop"
    /\ outcome = "running"
    /\ files \in SeqsUpTo(Records, MaxFiles)
    /\ param \in ParamKinds
    /\ idx = 0
    /\ energy = <<>>
    /\ params = <<>>
    /\ opened = {}
    /\ openLog = <<>>

\* for f in files: with abiopen(f) as gsr   (the next record is opened)
ReaderOpen ==
    /\ prog = "reader" /\ pc = "loop"
    /\ idx < Len(files)
    /\ idx' = idx + 1
    /\ opened' = opened \cup {idx + 1}
    /\ openLog' = Append(openLog, idx + 1)
    /\ pc' = "body"
    /\ UNCHANGED <<fitVars, cifVars, eosVars>>
    /\ UNCHANGED <<prog, outcome, files, param, energy, params>>

\* the body of the with block, for a recognized param
ReaderBody ==
    /\ prog = "reader" /\ pc = "body"
    /\ Recognized(param)
    /\ energy' = append(energy, files[idx].energy)
    /\ params' = append(params, reader_value(files[idx], param))
    /\ pc' = "exit"
    /\ UNCHANGED <<fitVars, cifVars, eosVars, openLog>>
    /\ UNCHANGED <<prog, outcome, files, param, idx, opened>>

\* the body of the with block, for any other param: the energy is appended,
\* then the else branch raises TypeError
ReaderRaise ==
    /\ prog = "reader" /\ pc = "body"
    /\ ~Recognized(param)
    /\ energy' = append(energy, files[idx].energy)
    /\ pc' = "raise"
    /\ UNCHANGED <<fitVars, cifVars, eosVars, openLog>>
    /\ UNCHANGED <<prog, outcome, files, param, idx, params, opened>>

\* leaving the with block normally closes the record; back to the for
ReaderExit ==
    /\ prog = "reader" /\ pc = "exit"
    /\ opened' = opened \ {idx}
    /\ pc' = "loop"
    /\ UNCHANGED <<fitVars, cifVars, eosVars, openLog>>
    /\ UNCHANGED <<prog, outcome, files, param, idx, energy, params>>

\* the exception leaves reader with the record still open, as it would had
\* the record been opened without a with block
ReaderUnwind_leak ==
    /\ prog = "reader" /\ pc = "raise"
    /\ outcome' = "TypeError"
    /\ pc' = "done"
    /\ UNCHANGED <<fitVars, cifVars, eosVars, openLog>>
    /\ UNCHANGED <<prog, files, param, idx, energy, params, opened>>

\* the exception leaves the with block, which closes the record, and then
\* leaves reader
ReaderUnwind ==
    /\ prog = "reader" /\ pc = "raise"
    /\ opened' = opened \ {idx}
    /\ outcome' = "TypeError"
    /\ pc' = "done"
    /\ UNCHANGED <<fitVars, cifVars, eosVars, openLog>>
    /\ UNCHANGED <<prog, files, param, idx, energy, params>>

\* the for loop is exhausted: return energy, params
ReaderReturn ==
    /\ prog = "reader" /\ pc = "loop"
    /\ idx = Len(files)
    /\ outcome' = "returned"
    /\ pc' = "done"
    /\ UNCHANGED <<fitVars, cifVars, eosVars, openLog>>
    /\ UNCHANGED <<prog, files, param, idx, energy, params, opened>>

----------------------------------------------------------------------------
(* fit.py: the module's imports, main and fit_curve(x_data, y_data, fit).   *)
(* Line 24 imports read_files from abinit_tools.reader; the module of that *)
(* name under src/ defines reader and main only, so the import raises      *)
(* ImportError, both when fit.py is run and when it is imported for its    *)
(* fit_curve.  The runs with read_files_defined are those with an          *)
(* abinit_tools.reader that has the function; read_files is then the       *)
(* OutputExtractor of the specification, with the behaviour of reader.     *)

\* the function objects a caller can hand to fit_curve: the three functions of
\* fit.py, and the four of abinit_tools/fits.py, which are other objects (the
\* == of fit_curve compares function identity)
FitFunctions ==
    {"lorentzian", "murnaghan", "birch_murnaghan",
     "fits.lorentzian", "fits.gaussian", "fits.murnaghan", "fits.birch_murnaghan"}

\* values of --fit tried by the model (argparse accepts any string)
Selectors == {"lorentzian", "murnaghan", "birch-murnaghan", "gaussian", "foo"}

\* values of --param tried by the model: the kinds the usage text of fit.py
\* names, and one that reader does not recognize
FitParams == {"ecut", "volume", "nkpt", "foo"}

\* main's dispatch table
fit_dispatch ==
    [s \in {"lorentzian", "murnaghan", "birch-murnaghan"} |->
        IF s = "lorentzian" THEN "lorentzian"
        ELSE IF s = "murnaghan" THEN "murnaghan"
        ELSE "birch_murnaghan"]

SampleX == 1..2
SampleY == (-2)..(-1)

\* min(y_data) of a non-empty list
min(y) == CHOOSE m \in {y[i] : i \in 1..Len(y)} : \A i \in 1..Len(y) : m <= y[i]

\* the index of the last occurrence of the minimum, in place of the first
argmin_last(y) ==
    (CHOOSE i \in 1..Len(y) :
        /\ \A j \in 1..Len(y) : y[i] <= y[j]
        /\ \A j \in (i + 1)..Len(y) : y[j] > y[i]) - 1

\* np.argmin(y_data): the 0-based index of the first occurrence of the minimum
argmin(y) ==
    (CHOOSE i \in 1..Len(y) :
        /\ \A j \in 1..Len(y) : y[i] <= y[j]
        /\ \A j \in 1..(i - 1) : y[j] > y[i]) - 1

\* list[i] with Python's 0-based index
getitem(list, i) == list[i + 1]

\* a fit_curve whose last branch is a plain else, so that every function gets
\* a guess
HasGuess_no_else(f) == TRUE

\* the branches of fit_curve that build an initial guess
HasGuess(f) == f = "lorentzian" \/ f \in {"murnaghan", "birch_murnaghan"}

\* p0 as fit_curve builds it
initial_guess(f, x, y) ==
    IF f = "lorentzian"
    THEN <<FromInt(min(y)), FromInt(getitem(x, argmin(y))), FromInt(1)>>
    ELSE LET V0_guess == getitem(x, argmin(y))
             E0_guess == min(y)
             B0_guess == Rat(1, 2)
             B1_guess == FromInt(4)
         IN  <<FromInt(V0_guess), FromInt(E0_guess), B0_guess, B1_guess>>

\* a run starts with the import of fit.py.  main gets --param and --fit and
\* reads its samples itself; a caller of fit_curve hands over the samples and
\* the function
InitFit ==
    /\ prog = "fit"
    /\ outcome = "running"
    /\ pc = "import"
    /\ read_files_defined \in BOOLEAN
    /\ \/ /\ entry = "main"
          /\ fit_param \in FitParams
          /\ selector \in Selectors
          /\ fit = "unset"
          /\ x_data = <<>>
          /\ y_data = <<>>
       \/ /\ entry = "fit_curve"
          /\ fit_param = "unset"
          /\ selector = "unset"
          /\ fit \in FitFunctions
          /\ \E k \in 0..MaxSamples :
                /\ x_data \in [1..k -> SampleX]
                /\ y_data \in [1..k -> SampleY]
    /\ p0 = <<>>
    /\ solverCalls = 0

\* from abinit_tools.reader import read_files: the module has no such name
FitImportError ==
    /\ prog = "fit" /\ pc = "import"
    /\ ~read_files_defined
    /\ outcome' = "ImportError"
    /\ pc' = "done"
    /\ UNCHANGED <<readerVars, cifVars, eosVars>>
    /\ UNCHANGED <<prog, fitVars>>

\* the imports succeed; a script run goes on to main, a caller to fit_curve
FitImport ==
    /\ prog = "fit" /\ pc = "import"
    /\ read_files_defined
    /\ pc' = IF entry = "main" THEN "read" ELSE "fit_curve"
    /\ UNCHANGED <<readerVars, cifVars, eosVars>>
    /\ UNCHANGED <<prog, outcome, fitVars>>

\* main: energy, params = read_files(files, args.param), with at least one
\* *GSR.nc record in the directory and a param outside the recognized kinds:
\* TypeError, as reader raises it at the first record
FitReadFilesRaises ==
    /\ prog = "fit" /\ pc = "read"
    /\ ~Recognized(fit_param)
    /\ outcome' = "TypeError"
    /\ pc' = "done"
    /\ UNCHANGED <<readerVars, cifVars, eosVars>>
    /\ UNCHANGED <<prog, fitVars>>

\* main: energy, params = read_files(files, args.param) returns one sample per
\* record; with no record it returns two empty lists, whatever the param
FitReadFiles ==
    /\ prog = "fit" /\ pc = "read"
    /\ \E k \in 0..MaxSamples :
          /\ Recognized(fit_param) \/ k = 0
          /\ \E xs \in [1..k -> SampleX], ys \in [1..k -> SampleY] :
                /\ x_data' = xs
                /\ y_data' = ys
    /\ pc' = "main"
    /\ UNCHANGED <<readerVars, cifVars, eosVars>>
    /\ UNCHANGED <<prog, outcome, entry, read_files_defined, fit_param,
                   selector, fit, p0, solverCalls>>

\* main: args.fit is not a key of fit_dispatch
FitMainUnknown ==
    /\ prog = "fit" /\ pc = "main"
    /\ selector \notin DOMAIN fit_dispatch
    /\ outcome' = "ValueError"
    /\ pc' = "done"
    /\ UNCHANGED <<readerVars, cifVars, eosVars>>
    /\ UNCHANGED <<prog, fitVars>>

\* main: fit_func = fit_dispatch[args.fit]; fit_curve(params, energy, fit_func)
FitMainDispatch ==
    /\ prog = "fit" /\ pc = "main"
    /\ selector \in DOMAIN fit_dispatch
    /\ fit' = fit_dispatch[selector]
    /\ pc' = "fit_curve"
    /\ UNCHANGED <<readerVars, cifVars, eosVars>>
    /\ UNCHANGED <<prog, outcome, entry, read_files_defined, fit_param, selector,
                   x_data, y_data, p0, solverCalls>>

\* fit_curve: the initial guess of a known fit function
FitGuess ==
    /\ prog = "fit" /\ pc = "fit_curve"
    /\ HasGuess(fit)
    /\ Len(y_data) > 0
    /\ p0' = initial_guess(fit, x_data, y_data)
    /\ pc' = "solve"
    /\ UNCHANGED <<readerVars, cifVars, eosVars>>
    /\ UNCHANGED <<prog, outcome, entry, read_files_defined, fit_param, selector,
                   fit, x_data, y_data, solverCalls>>

\* fit_curve: min() and np.argmin raise ValueError on an empty sequence
FitGuessEmpty ==
    /\ prog = "fit" /\ pc = "fit_curve"
    /\ HasGuess(fit)
    /\ Len(y_data) = 0
    /\ outcome' = "ValueError"
    /\ pc' = "done"
    /\ UNCHANGED <<readerVars, cifVars, eosVars>>
    /\ UNCHANGED <<prog, fitVars>>

\* fit_curve: else: raise ValueError("Unknown fit function")
FitUnknown ==
    /\ prog = "fit" /\ pc = "fit_curve"
    /\ ~HasGuess(fit)
    /\ outcome' = "ValueError"
    /\ pc' = "done"
    /\ UNCHANGED <<readerVars, cifVars, eosVars>>
    /\ UNCHANGED <<prog, fitVars>>

\* curve_fit(fit, x_data, y_data, p0=p0), which fit_curve calls without bounds
\* and so with the Levenberg-Marquardt method, refuses more parameters than
\* data points with a TypeError, which propagates.  (Its ValueError for nan or
\* inf among the data does not occur: the samples of the model are finite.)
FitSolveTooFew ==
    /\ prog = "fit" /\ pc = "solve"
    /\ Len(p0) > Len(y_data)
    /\ solverCalls' = solverCalls + 1
    /\ outcome' = "TypeError"
    /\ pc' = "done"
    /\ UNCHANGED <<readerVars, cifVars, eosVars>>
    /\ UNCHANGED <<prog, entry, read_files_defined, fit_param, selector, fit,
                   x_data, y_data, p0>>

\* curve_fit(fit, x_data, y_data, p0=p0) converges and fit_curve returns
FitSolve ==
    /\ prog = "fit" /\ pc = "solve"
    /\ Len(p0) <= Len(y_data)
    /\ solverCalls' = solverCalls + 1
    /\ outcome' = "returned"
    /\ pc' = "done"
    /\ UNCHANGED <<readerVars, cifVars, eosVars>>
    /\ UNCHANGED <<prog, entry, read_files_defined, fit_param, selector, fit,
                   x_data, y_data, p0>>

\* curve_fit does not converge and raises RuntimeError, which propagates
FitSolveFails ==
    /\ prog = "fit" /\ pc = "solve"
    /\ Len(p0) <= Len(y_data)
    /\ solverCalls' = solverCalls + 1
    /\ outcome' = "RuntimeError"
    /\ pc' = "done"
    /\ UNCHANGED <<readerVars, cifVars, eosVars>>
    /\ UNCHANGED <<prog, entry, read_files_defined, fit_param, selector, fit,
                   x_data, y_data, p0>>

----------------------------------------------------------------------------
(* cif2abi.py: clean_format and main *)

\* default of clean_format's precision argument
precision == 2

\* the text of a formatted float: the digits of |x| * 10^precision (so "0.67"
\* is digits 67 at precision 2), a leading minus sign, or the text "nan"/"inf"
Text(kind, neg, digits) == [kind |-> kind, neg |-> neg, digits |-> digits]

\* formatting that drops the digits after the precision instead of rounding
format_truncated(x, prec) ==
    IF ~IsFinite(x)
    THEN Text(IF x.num = 0 THEN "nan" ELSE "inf", x.num < 0, 0)
    ELSE Text("num", x.num < 0, (Abs(x.num) * IPow(10, prec)) \div x.den)

\* A float is the IEEE double nearest to the rational it stands for (53
\* significant bits, ties to the even mantissa).  The three operators below
\* give the sign of double(a/b) - a/b for a, b > 0, from the binary expansion
\* of a/b.
RECURSIVE ScaleDown(_, _)
ScaleDown(a, b) == IF a >= 2 * b THEN ScaleDown(a, 2 * b) ELSE b

RECURSIVE ScaleUp(_, _)
ScaleUp(a, b) == IF a < b THEN ScaleUp(2 * a, b) ELSE a

\* r/b is what is left of a/b below the bits produced so far, n bits are still
\* to be produced, last is the bit produced last
RECURSIVE MantissaError(_, _, _, _)
MantissaError(r, b, n, last) ==
    IF n = 0
    THEN IF r = 0 THEN 0
         ELSE IF 2 * r > b THEN 1
         ELSE IF 2 * r < b THEN -1
         ELSE IF last = 1 THEN 1 ELSE -1
    ELSE IF 2 * r >= b THEN MantissaError(2 * r - b, b, n - 1, 1)
         ELSE MantissaError(2 * r, b, n - 1, 0)

double_error_sign(a, b) ==
    IF a = 0 THEN 0
    ELSE LET bb == ScaleDown(a, b)
             aa == ScaleUp(a, bb)
         IN  MantissaError(aa - bb, bb, 52, 1)

\* f"{x:.{precision}f}": the decimal with that many digits nearest to the
\* double that x is.  Away from a decimal tie that is the decimal nearest to
\* the rational; on a decimal tie the double decides: above the tie rounds up,
\* below rounds down, exactly on it (a dyadic tie such as 0.125) rounds to the
\* even digit
format_fixed(x, prec) ==
    IF ~IsFinite(x)
    THEN Text(IF x.num = 0 THEN "nan" ELSE "inf", x.num < 0, 0)
    ELSE LET scaled == Abs(x.num) * IPow(10, prec)
             q == scaled \div x.den
             r == scaled % x.den
             e == double_error_sign(Abs(x.num), x.den)
             d == IF 2 * r > x.den THEN q + 1
                  ELSE IF 2 * r < x.den THEN q
                  ELSE IF e > 0 THEN q + 1
                  ELSE IF e < 0 THEN q
                  ELSE IF q % 2 = 0 THEN q ELSE q + 1
         IN  Text("num", x.num < 0, d)

\* abs(x) < tol, tol = 1e-14: every non-zero number of the model is far above
\* tol in magnitude, and nan compares false
below_tol(x) == IsFinite(x) /\ x.num = 0

clean_format(x) ==
    IF below_tol(x) THEN format_fixed(FromInt(0), precision)
    ELSE format_fixed(x, precision)

\* float(text) of a written number
parse_float(t) ==
    IF t.kind = "num"
    THEN Rat(IF t.neg THEN -t.digits ELSE t.digits, IPow(10, precision))
    ELSE IF t.kind = "nan" THEN NaN
    ELSE [num |-> IF t.neg THEN -1 ELSE 1, den |-> 0]

\* a site of the primitive structure: atomic number and fractional coordinates
Site(z, a, b, c) == [Z |-> z, frac_coords |-> <<a, b, c>>]

\* the coordinates include decimal ties at two digits: 1/8 (a dyadic tie),
\* 3/200 and 1/40 (doubles just below and just above the tie)
SiteSet ==
    { Site(14, FromInt(0), FromInt(0), FromInt(0)),
      Site(8, Rat(1, 4), Rat(1, 8), Rat(3, 4)),
      Site(1, Rat(1, 3), Rat(3, 200), Rat(1, 40)) }

\* the primitive cells of the model
Lattices == {LatCubic, LatSkew, LatTilt, LatMixed}

\* the cells a CIF of the model declares
Cells == Lattices \cup {LatZero, LatFlat}

\* a stand-in for lines 51-52 that takes every cell, whatever its volume
zero_volume_unchecked(c) == FALSE

\* lines 51-52 leave main with an exception when the cell of the CIF has zero
\* volume: spglib finds no symmetry dataset and no standardized cell for it,
\* and pymatgen raises
zero_volume(c) == det(ToBohr(c)).num = 0

\* get_primitive_standard_structure(): some basis of a lattice that the cell's
\* lattice is a sublattice of, so the volume of the cell is a whole multiple
\* of the volume of the primitive cell (and is zero only if that is)
PrimitiveCells(c) ==
    { L \in Cells :
        LET dc == det(ToBohr(c))
            dl == det(ToBohr(L))
        IN  IF dl.num = 0 THEN dc.num = 0
            ELSE dc.num # 0 /\ FDiv(dc, dl).den = 1 }

\* set(list)
set(list) == {list[i] : i \in 1..Len(list)}

\* sorted(S): ascending
RECURSIVE sorted(_)
sorted(S) ==
    IF S = {} THEN <<>>
    ELSE LET m == CHOOSE a \in S : \A b \in S : a <= b
         IN  <<m>> \o sorted(S \ {m})

\* the distinct atomic numbers in discovery order, in place of sorted(set(..))
RECURSIVE dedupe(_, _)
dedupe(list, seen) ==
    IF list = <<>> THEN <<>>
    ELSE IF Head(list) \in seen THEN dedupe(Tail(list), seen)
    ELSE <<Head(list)>> \o dedupe(Tail(list), seen \cup {Head(list)})

unique_species_discovery(atomic_number) == dedupe(atomic_number, {})

\* unique_z = sorted(set(atomic_number))
unique_species(atomic_number) == sorted(set(atomic_number))

\* list.index(z): 0-based position of the first occurrence
index(list, z) ==
    (CHOOSE i \in 1..Len(list) :
        list[i] = z /\ \A j \in 1..(i - 1) : list[j] # z) - 1

\* typat without the + 1 (0-based type indices)
typat_of_zero_based(atomic_number, uz) ==
    [j \in 1..Len(atomic_number) |-> index(uz, atomic_number[j])]

\* typat = [unique_z.index(z) + 1 for z in atomic_number]
typat_of(atomic_number, uz) ==
    [j \in 1..Len(atomic_number) |-> index(uz, atomic_number[j]) + 1]

\* vec / np.linalg.norm(vec)
normalize(vec) == [j \in 1..3 |-> FDiv(vec[j], norm(vec))]

\* atomic_number = [site.specie.Z for site in primitive]
atomic_numbers(primitive) == [j \in 1..Len(primitive) |-> primitive[j].Z]

InitCif ==
    /\ prog = "cif2abi"
    /\ pc = "parse"
    /\ outcome = "running"
    /\ cell \in Cells
    /\ latt = <<>>
    /\ sites = <<>>
    /\ full \in {"no", "yes"}
    /\ acell = <<>>
    /\ rprim = <<>>
    /\ unique_z = <<>>
    /\ typat = <<>>
    /\ block = <<>>

\* main, lines 54-73: Bohr conversion, acell, rprim, unique_z, typat
\* main, lines 51-52, for a cell of zero volume: the exception of the library
\* (its class depends on the pymatgen release; the model calls it
\* LibraryError) ends main before any of its values from line 55 on exists
CifPrimitiveFails ==
    /\ prog = "cif2abi" /\ pc = "parse"
    /\ zero_volume(cell)
    /\ outcome' = "LibraryError"
    /\ pc' = "raised"
    /\ UNCHANGED <<readerVars, fitVars, eosVars>>
    /\ UNCHANGED <<prog, cifVars>>

\* main, lines 51-55: the standardized primitive structure, its lattice and
\* its sites
CifPrimitive ==
    /\ prog = "cif2abi" /\ pc = "parse"
    /\ ~zero_volume(cell)
    /\ latt' \in PrimitiveCells(cell)
    /\ \E k \in 1..MaxSites : sites' \in [1..k -> SiteSet]
    /\ pc' = "reduce"
    /\ UNCHANGED <<readerVars, fitVars, eosVars>>
    /\ UNCHANGED <<prog, outcome, cell, full, acell, rprim, unique_z, typat,
                   block>>

CifReduce ==
    /\ prog = "cif2abi" /\ pc = "reduce"
    /\ LET latt_bohr == ToBohr(latt)
           atomic_number == atomic_numbers(sites)
       IN  /\ acell' = [i \in 1..3 |-> norm(latt_bohr[i])]
           /\ rprim' = [i \in 1..3 |-> normalize(latt_bohr[i])]
           /\ unique_z' = unique_species(atomic_number)
           /\ typat' = typat_of(atomic_number, unique_species(atomic_number))
    /\ pc' = "write"
    /\ UNCHANGED <<readerVars, fitVars, eosVars>>
    /\ UNCHANGED <<prog, outcome, cell, latt, sites, full, block>>

\* main, lines 90-146: the structure block, and the example block when
\* --full is yes (argparse admits only "no" and "yes", so the final else of
\* main is never taken)
CifWrite ==
    /\ prog = "cif2abi" /\ pc = "write"
    /\ block' = [acell |-> [i \in 1..3 |-> clean_format(acell[i])],
                 rprim |-> [i \in 1..3 |-> [j \in 1..3 |-> clean_format(rprim[i][j])]],
                 natom |-> Len(sites),
                 ntypat |-> Len(unique_z),
                 znucl |-> unique_z,
                 typat |-> typat,
                 xred |-> [k \in 1..Len(sites) |->
                             [j \in 1..3 |-> clean_format(sites[k].frac_coords[j])]],
                 example |-> (full = "yes")]
    /\ outcome' = "returned"
    /\ pc' = "done"
    /\ UNCHANGED <<readerVars, fitVars, eosVars>>
    /\ UNCHANGED <<prog, cell, latt, sites, full, acell, rprim, unique_z,
                   typat>>

----------------------------------------------------------------------------
(* fits.py: birch_murnaghan(V, V_0, E_0, B_0, B_1) *)

birch_murnaghan(V, V_0, E_0, B_0, B_1) ==
    LET x    == FDiv(FromInt(V_0), FromInt(V))
        one  == FromInt(1)
        pref == FDiv(FromInt(9 * V_0 * B_0), FromInt(16))
        t1   == RMul(RPowInt(RSub(RPow(x, 2, 4), one), 3), FromInt(B_1))
        t2   == RMul(RPowInt(RSub(RPow(x, 2, 3), one), 2),
                     RSub(FromInt(6), RMul(FromInt(4), RPow(x, 2, 3))))
    IN  RAdd(FromInt(E_0), RMul(pref, RAdd(t1, t2)))

\* the ratios V_0 : V of the model, each a perfect sixth power, so that both
\* (V_0/V)**(2/4) and (V_0/V)**(2/3) are rational
Ratios == {<<1, 1>>, <<64, 1>>, <<1, 64>>}

InitEos ==
    /\ prog = "eos"
    /\ pc = "call"
    /\ outcome = "running"
    /\ \E r \in Ratios, b \in 1..MaxBase :
          bmArgs \in [V : {b * r[2]}, V_0 : {b * r[1]}, E_0 : (-MaxB)..0,
                      B_0 : 1..MaxB, B_1 : 0..MaxB]
    /\ bmResult = NaN

\* one evaluation of birch_murnaghan
EosEval ==
    /\ prog = "eos" /\ pc = "call"
    /\ bmResult' = birch_murnaghan(bmArgs.V, bmArgs.V_0, bmArgs.E_0,
                                   bmArgs.B_0, bmArgs.B_1)
    /\ outcome' = "returned"
    /\ pc' = "done"
    /\ UNCHANGED <<readerVars, fitVars, cifVars>>
    /\ UNCHANGED <<prog, bmArgs>>

----------------------------------------------------------------------------
(* The system: one run of one program *)

IdleReader ==
    /\ files = <<>> /\ param = "unset" /\ idx = 0
    /\ energy = <<>> /\ params = <<>> /\ opened = {} /\ openLog = <<>>

IdleFit ==
    /\ entry = "unset" /\ read_files_defined = FALSE /\ fit_param = "unset"
    /\ selector = "unset" /\ fit = "unset"
    /\ x_data = <<>> /\ y_data = <<>> /\ p0 = <<>> /\ solverCalls = 0

IdleCif ==
    /\ cell = <<>> /\ latt = <<>> /\ sites = <<>> /\ full = "unset"
    /\ acell = <<>> /\ rprim = <<>> /\ unique_z = <<>> /\ typat = <<>>
    /\ block = <<>>

IdleEos == bmArgs = <<>> /\ bmResult = NaN

Init ==
    \/ InitReader /\ IdleFit /\ IdleCif /\ IdleEos
    \/ InitFit /\ IdleReader /\ IdleCif /\ IdleEos
    \/ InitCif /\ IdleReader /\ IdleFit /\ IdleEos
    \/ InitEos /\ IdleReader /\ IdleFit /\ IdleCif

Next ==
    \/ ReaderOpen
    \/ ReaderBody
    \/ ReaderRaise
    \/ ReaderExit
    \/ ReaderUnwind
    \/ ReaderReturn
    \/ FitImportError
    \/ FitImport
    \/ FitReadFilesRaises
    \/ FitReadFiles
    \/ FitMainUnknown
    \/ FitMainDispatch
    \/ FitGuess
    \/ FitGuessEmpty
    \/ FitUnknown
    \/ FitSolveTooFew
    \/ FitSolve
    \/ FitSolveFails
    \/ CifPrimitiveFails
    \/ CifPrimitive
    \/ CifReduce
    \/ CifWrite
    \/ EosEval

Spec == Init /\ [][Next]_vars

----------------------------------------------------------------------------
(* Properties *)

RAbs(x) == [num |-> Abs(x.num), den |-> x.den]

\* x <= y for finite rationals
RLeq(x, y) == x.num * y.den <= y.num * x.den

KnownFits == {"lorentzian", "murnaghan", "birch_murnaghan"}
KnownSelectors == {"lorentzian", "murnaghan", "birch-murnaghan"}

\* the model asked for is none of lorentzian, murnaghan, birch-murnaghan
UnknownModel ==
    \/ entry = "main" /\ selector \notin KnownSelectors
    \/ entry = "fit_curve" /\ fit \notin KnownFits

ZeroRow(lattice) ==
    \E i \in 1..3 : \A j \in 1..3 : lattice[i][j].c = 0

\* C1: with param 'rprim', for every record whose three row norms are not all
\* equal, element (i,j) of the returned matrix is lattice_bohr[i][j] divided by
\* the norm of row i.
C1_RprimRowsDividedByOwnNorm ==
    (prog = "reader" /\ param = "rprim") =>
        \A k \in 1..Len(params) :
            LET lb == ToBohr(files[k].lattice)
                n  == norm_axis1(lb)
            IN  ~(n[1] = n[2] /\ n[2] = n[3]) =>
                    \A i \in 1..3 : \A j \in 1..3 :
                        params[k][i][j] = FDiv(lb[i][j], n[i])

\* C2: reader called with a param outside the five recognized kinds ends by
\* raising an error, for every list of records, the empty list included; it
\* never returns normally.
C2_UnknownParamAlwaysRaises ==
    (prog = "reader" /\ pc = "done" /\ ~Recognized(param)) =>
        outcome = "TypeError"

\* C3: birch_murnaghan evaluates to
\* E0 + (9*V0*B0/16) * ( ((V0/V)^(2/3)-1)^3 * B1
\*                        + ((V0/V)^(2/3)-1)^2 * (6 - 4*(V0/V)^(2/3)) ),
\* with the exponent 2/3 in all three places.
C3_BirchMurnaghanUsesTwoThirds ==
    (prog = "eos" /\ pc = "done") =>
        LET x   == Rat(bmArgs.V_0, bmArgs.V)
            y   == RPow(x, 2, 3)
            one == FromInt(1)
            t1  == RMul(RPowInt(RSub(y, one), 3), FromInt(bmArgs.B_1))
            t2  == RMul(RPowInt(RSub(y, one), 2),
                        RSub(FromInt(6), RMul(FromInt(4), y)))
        IN  bmResult = RAdd(FromInt(bmArgs.E_0),
                            RMul(Rat(9 * bmArgs.V_0 * bmArgs.B_0, 16), RAdd(t1, t2)))

C5_TypatIndexesZnucl ==
    (prog = "cif2abi" /\ pc \in {"write", "done"}) =>
        /\ Len(typat) = Len(sites)
        /\ \A j \in 1..Len(sites) :
              /\ typat[j] \in 1..Len(unique_z)
              /\ unique_z[typat[j]] = sites[j].Z
        /\ pc = "done" =>
              /\ block.natom = Len(sites)
              /\ block.typat = typat
              /\ block.znucl = unique_z
              /\ block.ntypat = Len(unique_z)

C5_Witness ==
    /\ prog = "cif2abi" /\ pc = "done"
    /\ atomic_numbers(sites) = <<14, 1, 14>>
    /\ typat = <<2, 1, 2>>
    /\ block.typat = <<2, 1, 2>>

\* C6: unique_z (written as znucl) is strictly ascending, holds exactly the
\* atomic numbers that occur in the sites, each once, and is the same for
\* every permutation of the sites.
C6_UniqueSpeciesAscending ==
    (prog = "cif2abi" /\ pc \in {"write", "done"}) =>
        LET Z == atomic_numbers(sites)
            n == Len(sites)
        IN  /\ \A a \in 1..Len(unique_z) : \A b \in 1..Len(unique_z) :
                  a < b => unique_z[a] < unique_z[b]
            /\ {unique_z[a] : a \in 1..Len(unique_z)} = {Z[j] : j \in 1..n}
            /\ \A f \in Permutations(1..n) :
                  unique_species([j \in 1..n |-> Z[f[j]]]) = unique_z
            /\ pc = "done" => block.znucl = unique_z

C6_Witness ==
    /\ prog = "cif2abi" /\ pc = "done"
    /\ atomic_numbers(sites) = <<14, 1, 14>>
    /\ block.znucl = <<1, 14>>

\* C7: curve_fit is called only for lorentzian, murnaghan and birch-murnaghan;
\* for any other selector or function, gaussian included, the run ends with an
\* error, without a solver call and without an initial guess being built: it
\* never stops short of an end, and its end is an exception (the ValueError of
\* the dispatch or of fit_curve, or an earlier failure of the import or of
\* read_files).
C7_SolverOnlyForKnownModels ==
    prog = "fit" =>
        /\ (pc = "solve" \/ solverCalls > 0 \/ p0 # <<>>) =>
              (fit \in KnownFits /\ ~UnknownModel)
        /\ UnknownModel =>
              /\ solverCalls = 0
              /\ p0 = <<>>
              /\ pc \in {"import", "read", "main", "fit_curve", "done"}
              /\ pc = "import" => ENABLED (FitImportError \/ FitImport)
              /\ pc = "read" => ENABLED (FitReadFilesRaises \/ FitReadFiles)
              /\ pc \in {"main", "fit_curve"} =>
                    /\ ENABLED (FitMainUnknown \/ FitUnknown)
                    /\ ~ENABLED (FitMainDispatch \/ FitGuess \/ FitGuessEmpty)
              /\ pc = "done" =>
                    \/ outcome = "ValueError"
                    \/ outcome = "ImportError" /\ ~read_files_defined
                    \/ /\ outcome = "TypeError"
                       /\ entry = "main" /\ ~Recognized(fit_param)

C7_Witness ==
    /\ prog = "fit" /\ pc = "done"
    /\ read_files_defined
    /\ entry = "fit_curve" /\ fit = "fits.gaussian"
    /\ Len(y_data) > 0
    /\ outcome = "ValueError"

\* C8: with k the first index at which energies is minimal, the solver is
\* seeded with [energies[k], independentValues[k], 1.0] for lorentzian and
\* with [independentValues[k], energies[k], 0.5, 4.0] for murnaghan and
\* birch-murnaghan.
C8_SeedFromFirstMinimum ==
    (prog = "fit" /\ (pc = "solve" \/ solverCalls > 0)) =>
        \E k \in 1..Len(y_data) :
            /\ \A j \in 1..Len(y_data) : y_data[k] <= y_data[j]
            /\ \A j \in 1..(k - 1) : y_data[j] > y_data[k]
            /\ fit = "lorentzian" =>
                  p0 = <<FromInt(y_data[k]), FromInt(x_data[k]), FromInt(1)>>
            /\ fit \in {"murnaghan", "birch_murnaghan"} =>
                  p0 = <<FromInt(x_data[k]), FromInt(y_data[k]), Rat(1, 2), FromInt(4)>>
            /\ fit \in KnownFits

C8_Witness ==
    /\ prog = "fit" /\ pc = "done" /\ solverCalls = 1
    /\ outcome = "returned"
    /\ y_data = <<-1, -2, -2, -1>>
    /\ x_data[2] # x_data[3]
    /\ fit = "murnaghan"
    /\ p0 = <<FromInt(x_data[2]), FromInt(-2), Rat(1, 2), FromInt(4)>>

\* the lattice entry rebuilt from the written block: acell[i] * rprim[i][j]
Reparsed(i, j) == RMul(parse_float(block.acell[i]), parse_float(block.rprim[i][j]))

\* C9 as stated: the lattice rebuilt from the written acell and rprim differs
\* from the Bohr lattice by at most 0.005 in every entry.
C9_RoundTripWithinHalfCent ==
    (prog = "cif2abi" /\ pc = "done" /\ ~ZeroRow(latt)) =>
        \A i \in 1..3 : \A j \in 1..3 :
            RLeq(RAbs(RSub(Reparsed(i, j), ToBohr(latt)[i][j])), Rat(5, 1000))

\* C9 as amended: the lattice rebuilt from the written acell and rprim differs
\* from the Bohr lattice by at most the rounding error of the two written
\* factors carried through the product,
\* 0.005 * (acell[i] + |rprim[i][j]|) + 0.005^2.
C9_RoundTripPropagatedError ==
    (prog = "cif2abi" /\ pc = "done" /\ ~ZeroRow(latt)) =>
        \A i \in 1..3 : \A j \in 1..3 :
            RLeq(RAbs(RSub(Reparsed(i, j), ToBohr(latt)[i][j])),
                 RAdd(RMul(Rat(5, 1000), RAdd(acell[i], RAbs(rprim[i][j]))),
                      Rat(25, 1000000)))

C9_Witness ==
    /\ prog = "cif2abi" /\ pc = "done" /\ ~ZeroRow(latt)
    /\ \E i \in 1..3 : \E j \in 1..3 :
          /\ parse_float(block.rprim[i][j]) # rprim[i][j]
          /\ Reparsed(i, j) # ToBohr(latt)[i][j]

\* C10: for a recognized param, reader returns as many energies and values as
\* there are records, the i-th of each taken from the i-th record; while it
\* runs, the lists hold exactly the records processed so far, in order.
C10_OneSamplePerRecordInOrder ==
    (prog = "reader" /\ Recognized(param)) =>
        /\ Len(energy) = Len(params)
        /\ Len(energy) = (IF pc = "body" THEN idx - 1 ELSE idx)
        /\ \A i \in 1..Len(energy) :
              /\ energy[i] = files[i].energy
              /\ params[i] = reader_value(files[i], param)
        /\ pc = "done" =>
              /\ outcome = "returned"
              /\ Len(energy) = Len(files)

C10_Witness ==
    /\ prog = "reader" /\ pc = "done" /\ outcome = "returned"
    /\ param = "volume"
    /\ Len(files) = 2
    /\ files[1].energy # files[2].energy
    /\ Len(energy) = 2 /\ Len(params) = 2

\* C11: during reader at most one record is open; a record is closed before
\* the next one is opened and before reader returns or raises; the records are
\* opened once each, in input order; after reader has ended, normally or with
\* the unknown-parameter error, no record is open and no record after the
\* failing one was ever opened.
C11_RecordsScoped ==
    prog = "reader" =>
        /\ Cardinality(opened) <= 1
        /\ pc \in {"loop", "done"} => opened = {}
        /\ pc \in {"body", "exit", "raise"} => opened = {idx}
        /\ openLog = [i \in 1..idx |-> i]
        /\ idx <= Len(files)
        /\ (pc = "done" /\ outcome = "returned") =>
              Len(openLog) = (IF Recognized(param) THEN Len(files) ELSE 0)
        /\ (pc = "done" /\ outcome = "TypeError") =>
              /\ Len(energy) = idx
              /\ \A k \in 1..Len(openLog) : openLog[k] <= Len(energy)
              /\ openLog = <<1>>

C11_Witness ==
    /\ prog = "reader" /\ pc = "done" /\ outcome = "TypeError"
    /\ Len(files) = 2
    /\ openLog = <<1>>
    /\ opened = {}

====
